---- MODULE Spec2Model ----
(***************************************************************************)
(* Model of boto's request-authentication layer (boto/auth.py): credential *)
(* resolution, the four signing strategies and the handler resolver.       *)
(*                                                                         *)
(* Text is modelled at character level: a Python str is a sequence of      *)
(* one-character strings, so that endswith, lower, sorting and percent     *)
(* encoding are computed as the code computes them.  A digest is an opaque *)
(* token that is an injective function of (algorithm, key, data fed).      *)
(***************************************************************************)
EXTENDS Integers, Sequences, FiniteSets, TLC

(***************************************************************************)
(* Characters                                                              *)
(***************************************************************************)
UPPER == <<"A","B","C","D","E","F","G","H","I","J","K","L","M",
           "N","O","P","Q","R","S","T","U","V","W","X","Y","Z">>
LOWER == <<"a","b","c","d","e","f","g","h","i","j","k","l","m",
           "n","o","p","q","r","s","t","u","v","w","x","y","z">>
DIGITS == <<"0","1","2","3","4","5","6","7","8","9">>
HEXDIGITS == DIGITS \o <<"A","B","C","D","E","F">>

Range(s) == {s[i] : i \in 1..Len(s)}
IndexOf(s, c) == CHOOSE i \in 1..Len(s) : s[i] = c
IsUpper(c) == c \in Range(UPPER)
IsLower(c) == c \in Range(LOWER)
IsDigit(c) == c \in Range(DIGITS)

\* ASCII code of the punctuation the model uses
PunctOrd(c) ==
    CASE c = "\n" -> 10
      [] c = " " -> 32
      [] c = "%" -> 37
      [] c = "&" -> 38
      [] c = "+" -> 43
      [] c = "," -> 44
      [] c = "-" -> 45
      [] c = "." -> 46
      [] c = "/" -> 47
      [] c = ":" -> 58
      [] c = ";" -> 59
      [] c = "=" -> 61
      [] c = "?" -> 63
      [] c = "_" -> 95
      [] c = "~" -> 126

\* ord(c)
Ord(c) ==
    IF IsUpper(c) THEN 64 + IndexOf(UPPER, c)
    ELSE IF IsLower(c) THEN 96 + IndexOf(LOWER, c)
    ELSE IF IsDigit(c) THEN 47 + IndexOf(DIGITS, c)
    ELSE PunctOrd(c)

Punctuation == {"\n", " ", "%", "&", "+", ",", "-", ".", "/", ":", ";", "=", "?", "_", "~"}
Alphabet == Range(UPPER) \cup Range(LOWER) \cup Range(DIGITS) \cup Punctuation

\* str.lower()
LowerChar(c) == IF IsUpper(c) THEN LOWER[IndexOf(UPPER, c)] ELSE c
StrLower(s) == [i \in 1..Len(s) |-> LowerChar(s[i])]

\* cmp(x, y) < 0 on two str: lexicographic on character codes
StrLess(x, y) ==
    \E i \in 1..(Len(y)) :
        /\ \A j \in 1..(i - 1) : j <= Len(x) /\ x[j] = y[j]
        /\ \/ i = Len(x) + 1
           \/ i <= Len(x) /\ Ord(x[i]) < Ord(y[i])

\* str.endswith(suffix)
EndsWith(s, suffix) ==
    /\ Len(s) >= Len(suffix)
    /\ SubSeq(s, Len(s) - Len(suffix) + 1, Len(s)) = suffix

\* str.find(sub): the lowest 0-based index, or -1
Find(s, sub) ==
    LET hits == {i \in 0..(Len(s) - Len(sub)) : SubSeq(s, i + 1, i + Len(sub)) = sub}
    IN  IF hits = {} THEN -1 ELSE CHOOSE i \in hits : \A j \in hits : i <= j

\* '%d' % n for n >= 0
RECURSIVE IntToStr(_)
IntToStr(n) ==
    IF n < 10 THEN <<DIGITS[n + 1]>>
    ELSE IntToStr(n \div 10) \o <<DIGITS[(n % 10) + 1]>>

\* sep.join(parts)
RECURSIVE Join(_, _)
Join(parts, sep) ==
    IF parts = <<>> THEN <<>>
    ELSE IF Len(parts) = 1 THEN parts[1]
    ELSE parts[1] \o sep \o Join(Tail(parts), sep)

\* Concatenation of a sequence of strings
Concat(parts) == Join(parts, <<>>)

\* str.strip(): leading and trailing whitespace removed
Whitespace == {" ", "\n"}
RECURSIVE RStrip(_)
RStrip(s) ==
    IF s # <<>> /\ s[Len(s)] \in Whitespace THEN RStrip(SubSeq(s, 1, Len(s) - 1)) ELSE s
RECURSIVE LStrip(_)
LStrip(s) ==
    IF s # <<>> /\ s[1] \in Whitespace THEN LStrip(Tail(s)) ELSE s
Strip(s) == LStrip(RStrip(s))

(***************************************************************************)
(* urllib.quote                                                            *)
(***************************************************************************)
\* urllib.always_safe: letters, digits and '_.-'
AlwaysSafe == Range(UPPER) \cup Range(LOWER) \cup Range(DIGITS) \cup {"_", ".", "-"}

\* '%%%02X' % ord(c)
PercentEncode(c) == <<"%", HEXDIGITS[(Ord(c) \div 16) + 1], HEXDIGITS[(Ord(c) % 16) + 1]>>

\* One character under quote(s, safe).  A digest token stands for a run of
\* base64 characters the model does not know, so its quoting stays symbolic.
QuoteChar(c, safe) ==
    IF c \in Alphabet
    THEN IF c \in AlwaysSafe \cup safe THEN <<c>> ELSE PercentEncode(c)
    ELSE <<ToString(<<"quote", c>>)>>

\* urllib.quote(s, safe)
UrlQuote(s, safe) == Concat([i \in 1..Len(s) |-> QuoteChar(s[i], safe)])

\* urllib.quote(s): the default safe set is '/'
DefaultSafe == {"/"}

(***************************************************************************)
(* Python values that are stored where a str is expected                   *)
(***************************************************************************)
PyNone == <<"<None>">>
PyInt(n) == <<"<int>">> \o IntToStr(n)

\* str(v), as '%s' % v and get_utf8_value apply it to a non-string
PyStr(v) ==
    IF v = PyNone THEN <<"N","o","n","e">>
    ELSE IF v # <<>> /\ v[1] = "<int>" THEN Tail(v)
    ELSE v

\* boto.utils.get_utf8_value on an ASCII str, an int or None
get_utf8_value(v) == PyStr(v)

(***************************************************************************)
(* String constants of the program                                         *)
(***************************************************************************)
AMAZONAWS_COM == <<"a","m","a","z","o","n","a","w","s",".","c","o","m">>
\* HmacAuthHandler.S3_ENDPOINT = 's3.amazonaws.com'
S3_ENDPOINT == <<"s","3",".">> \o AMAZONAWS_COM
\* HmacAuthHandler.GS_ENDPOINT = 'commondatastorage.googleapis.com'
GS_ENDPOINT == <<"c","o","m","m","o","n","d","a","t","a","s","t","o","r","a","g","e",
                 ".","g","o","o","g","l","e","a","p","i","s",".","c","o","m">>
\* '.amazonaws.com', the suffix QuerySignatureHelper.__init__ requires
AWS_QUERY_SUFFIX == <<".">> \o AMAZONAWS_COM

K_Action == <<"A","c","t","i","o","n">>
K_Timestamp == <<"T","i","m","e","s","t","a","m","p">>
K_AWSAccessKeyId == <<"A","W","S","A","c","c","e","s","s","K","e","y","I","d">>
K_SignatureVersion == <<"S","i","g","n","a","t","u","r","e","V","e","r","s","i","o","n">>
K_SignatureMethod == <<"S","i","g","n","a","t","u","r","e","M","e","t","h","o","d">>
HmacSHA1 == <<"H","m","a","c","S","H","A","1">>
HmacSHA256 == <<"H","m","a","c","S","H","A","2","5","6">>
SIGNATURE_PARAM == <<"&","S","i","g","n","a","t","u","r","e","=">>
FORM_CONTENT_TYPE ==
    <<"a","p","p","l","i","c","a","t","i","o","n","/","x","-","w","w","w","-",
      "f","o","r","m","-","u","r","l","e","n","c","o","d","e","d",";"," ",
      "c","h","a","r","s","e","t","=","U","T","F","-","8">>
POST == <<"P","O","S","T">>
GET == <<"G","E","T">>

(***************************************************************************)
(* The environment the auth layer is called in                             *)
(***************************************************************************)
\* Hosts of a connection
HostBucketS3 == <<"b","k","t",".">> \o S3_ENDPOINT
HostLikeS3 == <<"x">> \o S3_ENDPOINT
HostEc2 == <<"E","c","2",".">> \o AMAZONAWS_COM
HostApex == AMAZONAWS_COM
HostBucketGS == <<"b",".">> \o GS_ENDPOINT
HostOther == <<"e","x","a","m","p","l","e",".","c","o","m">>
Hosts == {S3_ENDPOINT, HostBucketS3, HostLikeS3, HostEc2, HostApex, HostBucketGS, HostOther}

Ports == {80, 443, 8080}

\* Options of the config section 'Credentials' and the values they may hold
CredOptions == {"aws_access_key_id", "aws_secret_access_key",
                "gs_access_key_id", "gs_secret_access_key"}
CredValue(option) ==
    CASE option = "aws_access_key_id" -> <<"A","K","I","D">>
      [] option = "aws_secret_access_key" -> <<"w","J","/","K">>
      [] option = "gs_access_key_id" -> <<"G","O","O","G">>
      [] option = "gs_secret_access_key" -> <<"g","s","+","k">>
\* A config is the set of options present, each with its value
ConfigOf(present) == [o \in present |-> CredValue(o)]
Configs == {ConfigOf(p) : p \in {{}, {"aws_access_key_id"}, {"aws_secret_access_key"},
                                 {"aws_access_key_id", "aws_secret_access_key"},
                                 {"gs_access_key_id", "gs_secret_access_key"},
                                 CredOptions}}

\* Provider descriptors: name and auth_header
Providers == {[name |-> "aws", auth_header |-> <<"A","W","S">>],
              [name |-> "google", auth_header |-> <<"G","O","O","G","1">>],
              [name |-> "other", auth_header |-> <<"X">>]}

\* sys.version[:3]
PyVersions == {"2.5", "2.7"}

\* config.has_option('Credentials', option)
has_option(cfg, option) == option \in DOMAIN cfg
\* config.get('Credentials', option): None when the option is missing
config_get(cfg, option) == IF option \in DOMAIN cfg THEN cfg[option] ELSE PyNone

(***************************************************************************)
(* HmacKeys                                                                *)
(***************************************************************************)
\* The value _get_keys returns when no key is found (None)
NoKeys == <<>>

\* _get_keys with the provider test lost: any secret key found is returned
_get_keys_any_provider(cfg, prov) ==
    IF has_option(cfg, "aws_secret_access_key")
    THEN <<config_get(cfg, "aws_access_key_id"), config_get(cfg, "aws_secret_access_key")>>
    ELSE IF has_option(cfg, "gs_secret_access_key")
    THEN <<config_get(cfg, "gs_access_key_id"), config_get(cfg, "gs_secret_access_key")>>
    ELSE NoKeys

\* HmacKeys._get_keys
_get_keys(cfg, prov) ==
    IF prov.name = "aws" /\ has_option(cfg, "aws_secret_access_key")
    THEN <<config_get(cfg, "aws_access_key_id"), config_get(cfg, "aws_secret_access_key")>>
    ELSE IF prov.name = "google" /\ has_option(cfg, "gs_secret_access_key")
    THEN <<config_get(cfg, "gs_access_key_id"), config_get(cfg, "gs_secret_access_key")>>
    ELSE NoKeys

\* HmacKeys.__init__ runs to its end (does not raise NotReadyToAuthenticate)
HmacKeysReady(h, cfg, prov) == _get_keys(cfg, prov) # NoKeys

\* The fields HmacKeys.__init__ sets; the keyed-hash templates live in the heap
HmacKeysFields(cls, cfg, prov, has256) ==
    [cls |-> cls,
     _access_key |-> _get_keys(cfg, prov)[1],
     _secret_key |-> _get_keys(cfg, prov)[2],
     _provider |-> prov,
     has_hmac_256 |-> has256]

\* HmacAuthHandler.__init__ does not raise
HmacAuthHandlerReady(h, cfg, prov) ==
    /\ HmacKeysReady(h, cfg, prov)
    /\ (EndsWith(h, S3_ENDPOINT) \/ EndsWith(h, GS_ENDPOINT))

\* QuerySignatureHelper.__init__ with the S3 test lost
QuerySignatureReady_no_s3_test(h, cfg, prov) ==
    /\ HmacKeysReady(h, cfg, prov)
    /\ EndsWith(h, AWS_QUERY_SUFFIX)

\* QuerySignatureHelper.__init__ does not raise
QuerySignatureReady(h, cfg, prov) ==
    /\ HmacKeysReady(h, cfg, prov)
    /\ EndsWith(h, AWS_QUERY_SUFFIX)
    /\ ~EndsWith(h, S3_ENDPOINT)

(***************************************************************************)
(* Handler classes and the resolver                                        *)
(***************************************************************************)
QueryClasses == {"QuerySignatureV0AuthHandler", "QuerySignatureV1AuthHandler",
                 "QuerySignatureV2AuthHandler"}
HandlerClasses == {"HmacAuthHandler"} \cup QueryClasses

\* The class attribute SignatureVersion
SignatureVersion(cls) ==
    CASE cls = "QuerySignatureV0AuthHandler" -> 0
      [] cls = "QuerySignatureV1AuthHandler" -> 1
      [] cls = "QuerySignatureV2AuthHandler" -> 2

\* handler(host, config, provider) does not raise NotReadyToAuthenticate
ClassReady(cls, h, cfg, prov) ==
    IF cls = "HmacAuthHandler" THEN HmacAuthHandlerReady(h, cfg, prov)
    ELSE QuerySignatureReady(h, cfg, prov)

\* The candidate lists the plugin registry may hand to the resolver: the
\* handler classes of this module, in definition order, any of them left out
AllHandlers == <<"HmacAuthHandler", "QuerySignatureV0AuthHandler",
                 "QuerySignatureV1AuthHandler", "QuerySignatureV2AuthHandler">>
KeepOnly(keep) == SelectSeq(AllHandlers, LAMBDA c : c \in keep)
CandidateLists == {KeepOnly(keep) : keep \in SUBSET HandlerClasses}
\* The lists a requested capability narrows the registry to: one class each
SingleCandidates == {KeepOnly({c}) : c \in HandlerClasses}

\* A candidate class registered by a plug-in whose constructor fails with an
\* exception other than NotReadyToAuthenticate
RaisingPlugin == "RaisingPlugin"
PluginException == "ValueError"

\* The registry after a plug-in registered RaisingPlugin: the class may stand
\* anywhere among the candidates
InsertAt(list, i, x) == SubSeq(list, 1, i - 1) \o <<x>> \o SubSeq(list, i, Len(list))
ErrCandidateLists ==
    CandidateLists \cup
    {InsertAt(l, i, RaisingPlugin) : <<l, i>> \in
        {li \in CandidateLists \X (1..5) : li[2] <= Len(li[1]) + 1}}

\* No instance
NoHandler == [cls |-> "none"]

\* handler(host, config, provider): "ready" when the constructor returns,
\* otherwise the name of the exception it raises
Instantiate(cls, h, cfg, prov) ==
    IF cls = RaisingPlugin THEN PluginException
    ELSE IF ClassReady(cls, h, cfg, prov) THEN "ready"
    ELSE "NotReadyToAuthenticate"

\* A loop that catches every exception of a constructor
Caught_everything == {"NotReadyToAuthenticate", PluginException}

\* The exceptions the loop of get_auth_handler catches
Caught == {"NotReadyToAuthenticate"}

\* Positions of the candidates whose constructor raises something not caught
Escaping(auth_handlers, h, cfg, prov, caught) ==
    {i \in 1..Len(auth_handlers) :
        Instantiate(auth_handlers[i], h, cfg, prov) \notin ({"ready"} \cup caught)}

\* The position at which the loop stops: the first escaping exception, or the
\* end of the list
Min(S) == CHOOSE i \in S : \A j \in S : i <= j
LoopEnd(auth_handlers, h, cfg, prov, caught) ==
    LET esc == Escaping(auth_handlers, h, cfg, prov, caught)
    IN  IF esc = {} THEN Len(auth_handlers) ELSE Min(esc)

\* The loop of get_auth_handler: the instances of the candidates that are ready
RECURSIVE ready_handlers(_, _, _, _, _)
ready_handlers(auth_handlers, h, cfg, prov, has256) ==
    IF auth_handlers = <<>> THEN <<>>
    ELSE (IF Instantiate(Head(auth_handlers), h, cfg, prov) = "ready"
          THEN <<HmacKeysFields(Head(auth_handlers), cfg, prov, has256)>>
          ELSE <<>>)
         \o ready_handlers(Tail(auth_handlers), h, cfg, prov, has256)

\* The count checks after the loop, on the list of ready handlers
AfterLoop(ready, auth_handlers) ==
    IF ready = <<>>
    THEN [outcome |-> "NoAuthHandlerFound", handler |-> NoHandler,
          names |-> auth_handlers, auth_handlers |-> auth_handlers,
          tried |-> Len(auth_handlers)]
    ELSE IF Len(ready) > 1
    THEN [outcome |-> "TooManyAuthHandlerReadyToAuthenticate", handler |-> NoHandler,
          names |-> [i \in 1..Len(ready) |-> ready[i].cls],
          auth_handlers |-> auth_handlers, tried |-> Len(auth_handlers)]
    ELSE [outcome |-> "returned", handler |-> ready[1], names |-> <<>>,
          auth_handlers |-> auth_handlers, tried |-> Len(auth_handlers)]

\* get_auth_handler that picks the first ready handler when several are ready
get_auth_handler_first_ready(auth_handlers, h, cfg, prov, has256) ==
    LET ready == ready_handlers(auth_handlers, h, cfg, prov, has256)
    IN  IF ready = <<>>
        THEN [outcome |-> "NoAuthHandlerFound", handler |-> NoHandler,
              names |-> auth_handlers, auth_handlers |-> auth_handlers,
              tried |-> Len(auth_handlers)]
        ELSE [outcome |-> "returned", handler |-> ready[1], names |-> <<>>,
              auth_handlers |-> auth_handlers, tried |-> Len(auth_handlers)]

\* get_auth_handler: what it raises or returns, and how many candidates it
\* instantiated (tried)
get_auth_handler(auth_handlers, h, cfg, prov, has256) ==
    LET stop == LoopEnd(auth_handlers, h, cfg, prov, Caught)
    IN  IF Escaping(auth_handlers, h, cfg, prov, Caught) # {}
        THEN [outcome |-> Instantiate(auth_handlers[stop], h, cfg, prov),
              handler |-> NoHandler, names |-> <<>>,
              auth_handlers |-> auth_handlers, tried |-> stop]
        ELSE AfterLoop(ready_handlers(auth_handlers, h, cfg, prov, has256),
                       auth_handlers)

(***************************************************************************)
(* Keyed-hash objects                                                      *)
(***************************************************************************)
\* hmac.new(key, digestmod=alg): nothing fed yet
hmac_new(key, alg) == [alg |-> alg, key |-> key, data |-> <<>>]
NoObject == [alg |-> "none", key |-> <<>>, data |-> <<>>]

\* HMAC.update(msg) on the object h
hmac_update(h, msg) == [h EXCEPT !.data = @ \o msg]

\* HMAC.digest(): an opaque token, injective in (algorithm, key, data)
hmac_digest(h) == ToString(<<"digest", h.alg, h.key, h.data>>)

\* base64.b64encode of a 20- or 32-byte digest: a run of base64 characters
\* and one '=' of padding
b64encode(d) == <<ToString(<<"b64", d>>), "=">>

\* base64.encodestring: the same with a newline appended
encodestring(d) == b64encode(d) \o <<"\n">>

\* `hmac = self._hmac` instead of a copy: the call holds the template itself
CopyRef_no_copy(template, fresh) == template

\* The reference `self._hmac.copy()` evaluates to: the fresh object, not the
\* template it was copied from
CopyRef(template, fresh) == fresh

(***************************************************************************)
(* Dictionaries                                                            *)
(***************************************************************************)
EmptyDict == <<>>
\* d[k] = v
DictSet(d, k, v) == [x \in (DOMAIN d) \cup {k} |-> IF x = k THEN v ELSE d[x]]

(***************************************************************************)
(* Key order of the canonical query string                                 *)
(***************************************************************************)
\* cmp(x.lower(), y.lower()) <= 0
LowerLessEq(x, y) == ~StrLess(StrLower(y), StrLower(x))
\* cmp(x, y) <= 0
RawLessEq(x, y) == ~StrLess(y, x)

\* The comparison keys.sort uses in V0 and V1 (cmp of the lowered keys)
CmpV01(x, y) == LowerLessEq(x, y)
\* The comparison keys.sort() uses in V2 (plain cmp)
CmpV2(x, y) == RawLessEq(x, y)

KeyLessEq(x, y, version) == IF version = 2 THEN CmpV2(x, y) ELSE CmpV01(x, y)

\* The results keys.sort can give on the keys of a dict: the sort is stable
\* and the order of dict.keys() is not specified, so keys that compare equal
\* may come out either way
RECURSIVE SortedKeys(_, _)
SortedKeys(keys, version) ==
    IF keys = {} THEN {<<>>}
    ELSE UNION {{<<k>> \o rest : rest \in SortedKeys(keys \ {k}, version)} :
                k \in {m \in keys : \A o \in keys : KeyLessEq(m, o, version)}}

\* pairs of V0 and V1: key + '=' + urllib.quote(val)
PairsV01(params, keys) ==
    [i \in 1..Len(keys) |->
        keys[i] \o <<"=">> \o UrlQuote(get_utf8_value(params[keys[i]]), DefaultSafe)]

\* pairs of V2: urllib.quote(key, safe='') + '=' + urllib.quote(val, safe='-_~')
PairsV2(params, keys) ==
    [i \in 1..Len(keys) |->
        UrlQuote(keys[i], {}) \o <<"=">>
            \o UrlQuote(get_utf8_value(params[keys[i]]), {"-", "_", "~"})]

\* What V1 feeds the hash: every key, then its value
StreamV1(params, keys) ==
    Concat([i \in 1..Len(keys) |-> keys[i] \o get_utf8_value(params[keys[i]])])

(***************************************************************************)
(* Pieces of add_auth                                                      *)
(***************************************************************************)
\* _server_name without the branch for port 443 on Python 2.6 and 2.7
_server_name_no_443_branch(h, p, version) ==
    IF p = 80 THEN h ELSE h \o <<":">> \o IntToStr(p)

\* QuerySignatureHelper._server_name
_server_name(h, p, version) ==
    IF p = 80 THEN h
    ELSE IF version \in {"2.6", "2.7"} /\ p = 443 THEN h
    ELSE h \o <<":">> \o IntToStr(p)

\* HmacAuthHandler._get_bucket
_get_bucket(h) ==
    IF Find(h, <<".">> \o S3_ENDPOINT) # -1
    THEN <<"/">> \o SubSeq(h, 1, Find(h, <<".">> \o S3_ENDPOINT))
    ELSE IF Find(h, <<".">> \o GS_ENDPOINT) # -1
    THEN <<"/">> \o SubSeq(h, 1, Find(h, <<".">> \o GS_ENDPOINT))
    ELSE <<>>

\* boto.utils.canonical_string: a deterministic string of its arguments
canonical_string(method, auth_path, headers, prov) ==
    <<ToString(<<"canonical_string", method, auth_path, headers, prov.name>>)>>

\* The wall clock, read once per add_auth
Times == {1, 2}
\* time.strftime("%Y-%m-%dT%H:%M:%S", time.gmtime())
FormatTimestamp(now) == <<"T","1","5",":","1","9",":","3">> \o IntToStr(now)
\* time.strftime("%a, %d %b %Y %H:%M:%S GMT", time.gmtime())
FormatDate(now) ==
    <<"M","o","n",","," ","1","5",":","1","9",":","3">> \o IntToStr(now) \o <<" ","G","M","T">>

\* The Date header set whether or not the caller gave one
WithDate_always(headers, now) == DictSet(headers, "Date", FormatDate(now))

\* `if not headers.has_key('Date'): headers['Date'] = ...`
WithDate(headers, now) ==
    IF "Date" \in DOMAIN headers THEN headers ELSE DictSet(headers, "Date", FormatDate(now))

\* '%s\n%s\n%s\n' % (verb, server_name.lower(), path)
StringToSignPrefix(verb, server_name, path) ==
    verb \o <<"\n">> \o StrLower(server_name) \o <<"\n">> \o path \o <<"\n">>

\* qs + '&Signature=' + urllib.quote(signature)
SignedQuery(qs, signature) == qs \o SIGNATURE_PARAM \o UrlQuote(signature, DefaultSafe)

(***************************************************************************)
(* State                                                                   *)
(***************************************************************************)
VARIABLES
    host,        \* host of the connection
    port,        \* port of the connection
    config,      \* the config's section 'Credentials'
    provider,    \* the provider descriptor
    sha256,      \* whether hashlib provides sha256 (module level `sha256`)
    pyver,       \* sys.version[:3]
    resolution,  \* what get_auth_handler did: its outcome and the instance returned
    heap,        \* the keyed-hash objects: the instance's templates and each call's local
    request,     \* per caller, the request it hands to add_auth
    entry,       \* per caller, that request as it was when add_auth was entered
    call,        \* per caller, the frame of its add_auth call
    previous,    \* per caller, the frame of its add_auth call before this one
    writer,      \* a glacier Writer: its fields, and what was asked of it so far
    th           \* a call of tree_hash: its locals and its position

env == <<host, port, config, provider, sha256, pyver>>
vars == <<host, port, config, provider, sha256, pyver, resolution, heap, request, entry, call,
          previous, writer, th>>

\* Callers that may sign with the one instance
Threads == {"t1", "t2"}
\* add_auth calls one caller makes
MaxCalls == 2

HeapIds == {"_hmac", "_hmac_256"} \cup Threads

Pending == [outcome |-> "pending", handler |-> NoHandler, names |-> <<>>,
            auth_handlers |-> <<>>, tried |-> 0]

NoRequest == [method |-> <<>>, host |-> <<>>, port |-> 0, path |-> <<>>,
              headers |-> EmptyDict, params |-> EmptyDict, body |-> <<>>]

IdleFrame == [pc |-> "idle", n |-> 0, result |-> "none", hmac |-> "none", msg |-> <<>>,
              params |-> EmptyDict, verb |-> <<>>, path |-> <<>>, server_name |-> <<>>,
              keys |-> <<>>, qs |-> <<>>, signature |-> <<>>]

(***************************************************************************)
(* Requests a caller may sign                                              *)
(***************************************************************************)
OldBody == <<"o","l","d">>
HeaderChoices ==
    {EmptyDict,
     [n \in {"Date"} |-> <<"S","u","n">>],
     [n \in {"Content-Type", "date"} |-> <<"t","e","x","t">>]}
ParamChoices ==
    {EmptyDict,
     [k \in {K_Action} |-> <<"G","o">>],
     [k \in {K_Action, <<"Z">>, <<"a">>, <<"p","/">>} |->
        IF k = K_Action THEN <<"G","o">> ELSE IF k = <<"a">> THEN <<"/","~"," ">> ELSE <<"1">>],
     [k \in {K_Action, <<"a">>, <<"A">>, K_SignatureMethod} |->
        IF k = K_Action THEN <<"U","p">> ELSE k]}
Requests ==
    {[method |-> m, host |-> host, port |-> port, path |-> <<"/">>,
      headers |-> h, params |-> p, body |-> OldBody] :
        m \in {GET, POST}, h \in HeaderChoices, p \in ParamChoices}

\* The requests of the two-caller specification
FewRequests ==
    {r \in Requests : r.method = GET /\ r.headers = EmptyDict /\ K_Action \in DOMAIN r.params}

(***************************************************************************)
(* glacier/writer.py: hashes                                               *)
(***************************************************************************)
\* hashlib.sha256(data).digest(): an opaque token, injective in data
hashlib_sha256(data) == <<ToString(<<"sha256", data>>)>>

\* bytes_to_hex(str): the hexadecimal text of a byte string
bytes_to_hex(str) == <<ToString(<<"hex", str>>)>>

\* chunk_hashes(str): the hashes of the 1 MB chunks of str
chunk == 1048576
chunk_hashes(str) ==
    LET chunk_count == (Len(str) + chunk - 1) \div chunk
    IN  [i \in 1..chunk_count |->
            hashlib_sha256(SubSeq(str, (i - 1) * chunk + 1,
                                  IF i * chunk < Len(str) THEN i * chunk ELSE Len(str)))]

\* One pass of the inner `while True` of tree_hash: pop two and append their
\* hash, or pop the last one and append it as it is
RECURSIVE PairUp(_)
PairUp(hashes) ==
    IF Len(hashes) > 1
    THEN <<hashlib_sha256(hashes[1] \o hashes[2])>> \o PairUp(SubSeq(hashes, 3, Len(hashes)))
    ELSE hashes

\* tree_hash(fo) as a function; hashes[0] of an empty list raises IndexError
IndexError == <<"IndexError">>
RECURSIVE tree_hash(_)
tree_hash(fo) ==
    IF Len(fo) > 1 THEN tree_hash(PairUp(fo))
    ELSE IF fo = <<>> THEN IndexError
    ELSE fo[1]

(***************************************************************************)
(* glacier/writer.py: Writer                                               *)
(***************************************************************************)
\* The names a function body assigns are its locals from its first line on
Locals(fn) ==
    IF fn = "send_part"
    THEN {"buf", "part", "part_tree_hash", "tree_hash", "linear_hash", "content_range",
          "response"}
    ELSE IF fn = "close" THEN {"tree_hash", "response"}
    ELSE {}

\* Reading `name` in fn when only the locals `bound` have been assigned: a
\* local not yet bound raises UnboundLocalError instead of reaching the
\* module-level name
ReadsUnbound(fn, name, bound) == name \in Locals(fn) /\ name \notin bound

NoException == "none"
Unset == <<"<unset>">>

\* Writer.__init__
NewWriter(part_size) ==
    [part_size |-> part_size, buffer_size |-> 0, uploaded_size |-> 0, buffer |-> <<>>,
     tree_hashes |-> <<>>, closed |-> FALSE, archive_id |-> Unset]

\* response['ArchiveId'] of complete_multipart_upload
ArchiveIdOf(tree, size) == <<ToString(<<"ArchiveId", tree, size>>)>>

\* Writer.send_part on w.self; w.upload_part lists the calls of
\* layer1.upload_part, w.raised names the exception that left the method
send_part(w) ==
    LET self == w.self
        buf == Concat(self.buffer)
        kept == IF Len(buf) > self.part_size
                THEN [self EXCEPT !.buffer = <<SubSeq(buf, self.part_size + 1, Len(buf))>>,
                                  !.buffer_size = Len(buf) - self.part_size]
                ELSE [self EXCEPT !.buffer = <<>>, !.buffer_size = 0]
        part == SubSeq(buf, 1, IF self.part_size < Len(buf) THEN self.part_size ELSE Len(buf))
        part_tree_hash == tree_hash(chunk_hashes(part))
    IN  IF ReadsUnbound("send_part", "tree_hash", {"buf", "part"})
        THEN [w EXCEPT !.self = kept, !.raised = "UnboundLocalError"]
        ELSE IF part_tree_hash = IndexError
        THEN [w EXCEPT !.self = kept, !.raised = "IndexError"]
        ELSE [w EXCEPT !.self = [kept EXCEPT !.tree_hashes = Append(@, part_tree_hash),
                                             !.uploaded_size = @ + Len(part)],
                       !.upload_part = Append(@,
                            [linear_hash |-> bytes_to_hex(hashlib_sha256(part)),
                             tree_hash |-> bytes_to_hex(part_tree_hash),
                             content_range |-> <<self.uploaded_size,
                                                 (self.uploaded_size + Len(part)) - 1>>,
                             part |-> part])]

\* `while self.buffer_size > self.part_size: self.send_part()`
RECURSIVE write_loop(_)
write_loop(w) ==
    IF w.raised # NoException THEN w
    ELSE IF w.self.buffer_size > w.self.part_size THEN write_loop(send_part(w))
    ELSE w

\* Writer.write(str)
write(w, str) ==
    IF w.self.closed THEN [w EXCEPT !.raised = "AssertionError"]
    ELSE IF str = <<>> THEN w
    ELSE write_loop([w EXCEPT !.self.buffer = Append(@, str),
                              !.self.buffer_size = @ + Len(str)])

\* Writer.close(); w.complete_multipart_upload lists the calls of
\* layer1.complete_multipart_upload
close(w) ==
    IF w.self.closed THEN w
    ELSE LET sent == IF w.self.buffer_size > 0 THEN send_part(w) ELSE w
             root == tree_hash(sent.self.tree_hashes)
         IN  IF sent.raised # NoException THEN sent
             ELSE IF ReadsUnbound("close", "tree_hash", {})
             THEN [sent EXCEPT !.raised = "UnboundLocalError"]
             ELSE IF root = IndexError
             THEN [sent EXCEPT !.raised = "IndexError"]
             ELSE [sent EXCEPT
                     !.complete_multipart_upload =
                         Append(@, [tree_hash |-> bytes_to_hex(root),
                                    size |-> sent.self.uploaded_size]),
                     !.self.archive_id = ArchiveIdOf(bytes_to_hex(root),
                                                     sent.self.uploaded_size),
                     !.self.closed = TRUE]

\* Writer.get_archive_id()
get_archive_id(w) == close(w)

\* Bounds of the Writer specification
MaxPartSize == 2
MaxStrLen == 3
MaxWriterCalls == 3
Bytes == {"a", "b"}
Strs == UNION {[1..n -> Bytes] : n \in 0..MaxStrLen}

\* The fields of the Writer a later call can be compared with
Snapshot(w) ==
    [buffer |-> w.self.buffer, buffer_size |-> w.self.buffer_size,
     uploaded_size |-> w.self.uploaded_size, closed |-> w.self.closed,
     upload_part |-> Len(w.upload_part),
     complete_multipart_upload |-> Len(w.complete_multipart_upload)]

\* A Writer just constructed, nothing asked of it yet
FreshWriter(part_size) ==
    [self |-> NewWriter(part_size), upload_part |-> <<>>,
     complete_multipart_upload |-> <<>>, raised |-> NoException,
     op |-> "none", calls |-> 0, written |-> 0, close_calls |-> 0,
     before |-> [buffer |-> <<>>, buffer_size |-> 0, uploaded_size |-> 0,
                 closed |-> FALSE, upload_part |-> 0, complete_multipart_upload |-> 0]]

\* The entry of a method call: the exception slot is clear and the call noted
Enter(w, op) ==
    [w EXCEPT !.raised = NoException, !.op = op, !.calls = @ + 1,
              !.before = Snapshot(w)]

(***************************************************************************)
(* Initial states                                                          *)
(***************************************************************************)
\* tree_hash not called
IdleTree ==
    [pc |-> "idle", input |-> <<>>, hashes |-> "local", n |-> 0, result |-> <<>>,
     lists |-> [caller |-> <<>>, local |-> <<>>, new_hashes |-> <<>>]]

\* No handler resolved, no request signed
AuthRest ==
    /\ resolution = Pending
    /\ heap = [i \in HeapIds |-> NoObject]
    /\ request = [t \in Threads |-> NoRequest]
    /\ entry = [t \in Threads |-> NoRequest]
    /\ call = [t \in Threads |-> IdleFrame]
    /\ previous = [t \in Threads |-> IdleFrame]

InitRest ==
    /\ AuthRest
    /\ writer = FreshWriter(1)
    /\ th = IdleTree

\* Any host, config and provider
Init ==
    /\ host \in Hosts
    /\ port \in Ports
    /\ config \in Configs
    /\ provider \in Providers
    /\ sha256 \in BOOLEAN
    /\ pyver \in PyVersions
    /\ InitRest

AwsProvider == [name |-> "aws", auth_header |-> <<"A","W","S">>]

\* A storage host and a query host, with AWS credentials
SignInit ==
    /\ host \in {HostBucketS3, HostEc2}
    /\ port \in Ports
    /\ config \in {ConfigOf({"aws_access_key_id", "aws_secret_access_key"}),
                   ConfigOf({"aws_secret_access_key"})}
    /\ provider = AwsProvider
    /\ sha256 \in BOOLEAN
    /\ pyver \in PyVersions
    /\ InitRest

ConcInit ==
    /\ host \in {HostBucketS3, HostEc2}
    /\ port = 443
    /\ config = ConfigOf({"aws_access_key_id", "aws_secret_access_key"})
    /\ provider = AwsProvider
    /\ sha256 \in BOOLEAN
    /\ pyver = "2.7"
    /\ InitRest

\* Any host, config and provider, for resolution alone
ErrInit ==
    /\ host \in Hosts
    /\ port = 80
    /\ config \in Configs
    /\ provider \in Providers
    /\ sha256 = TRUE
    /\ pyver = "2.7"
    /\ InitRest

\* The environment of the glacier specifications: no signing takes place
AuthIdle ==
    /\ host = HostEc2
    /\ port = 80
    /\ config = ConfigOf({})
    /\ provider = AwsProvider
    /\ sha256 = TRUE
    /\ pyver = "2.7"
    /\ AuthRest

\* A Writer of any part size
WriterInit ==
    /\ AuthIdle
    /\ writer \in {FreshWriter(part_size) : part_size \in 1..MaxPartSize}
    /\ th = IdleTree

(***************************************************************************)
(* get_auth_handler                                                        *)
(***************************************************************************)
Resolve(lists) ==
    /\ resolution.outcome = "pending"
    /\ \E auth_handlers \in lists :
        LET res == get_auth_handler(auth_handlers, host, config, provider, sha256)
        IN  /\ resolution' = res
            /\ heap' = IF res.outcome = "returned"
                       THEN [heap EXCEPT
                                !["_hmac"] = hmac_new(res.handler._secret_key, "sha1"),
                                !["_hmac_256"] = IF sha256
                                                 THEN hmac_new(res.handler._secret_key, "sha256")
                                                 ELSE NoObject]
                       ELSE heap
    /\ UNCHANGED <<env, request, entry, call, previous, writer, th>>

handler == resolution.handler

\* A caller may enter add_auth: first with a fresh request, then with the
\* request it signed before
MayCall(t) ==
    /\ resolution.outcome = "returned"
    /\ call[t].pc = "idle"
    /\ call[t].n < MaxCalls
Offered(t, fresh) == IF call[t].n = 0 THEN fresh ELSE {request[t]}

(***************************************************************************)
(* HmacAuthHandler.add_auth                                                *)
(***************************************************************************)
\* Up to `hmac = self._hmac.copy()`
HmacBegin(t, fresh, times) ==
    /\ MayCall(t)
    /\ handler.cls = "HmacAuthHandler"
    /\ \E r \in Offered(t, fresh), now \in times :
        LET headers == WithDate(r.headers, now)
            auth_path == _get_bucket(r.host) \o r.path
            c_string == canonical_string(r.method, auth_path, headers, handler._provider)
        IN  /\ entry' = [entry EXCEPT ![t] = r]
            /\ previous' = [previous EXCEPT ![t] = call[t]]
            /\ request' = [request EXCEPT ![t] = [r EXCEPT !.headers = headers]]
            /\ heap' = [heap EXCEPT ![t] = heap["_hmac"]]
            /\ call' = [call EXCEPT ![t] =
                          [IdleFrame EXCEPT !.pc = "copied", !.n = call[t].n + 1,
                                            !.hmac = CopyRef("_hmac", t),
                                            !.msg = c_string,
                                            !.verb = r.method, !.path = auth_path]]
    /\ UNCHANGED <<env, resolution, writer, th>>

\* From `b64_hmac = ...` to the end
HmacFinish(t) ==
    /\ call[t].pc = "updated"
    /\ handler.cls = "HmacAuthHandler"
    /\ LET b64_hmac == Strip(encodestring(hmac_digest(heap[call[t].hmac])))
           auth_hdr == handler._provider.auth_header
           value == auth_hdr \o <<" ">> \o PyStr(handler._access_key) \o <<":">> \o b64_hmac
       IN  /\ request' = [request EXCEPT
                            ![t].headers = DictSet(@, "Authorization", value)]
           /\ call' = [call EXCEPT ![t].pc = "idle", ![t].result = "returned",
                                   ![t].signature = b64_hmac]
    /\ UNCHANGED <<env, resolution, heap, entry, previous, writer, th>>

\* hmac.update(...) on the object the call holds
Update(t) ==
    /\ call[t].pc = "copied"
    /\ heap' = [heap EXCEPT ![call[t].hmac] = hmac_update(@, call[t].msg)]
    /\ call' = [call EXCEPT ![t].pc = "updated"]
    /\ UNCHANGED <<env, resolution, request, entry, previous, writer, th>>

(***************************************************************************)
(* QuerySignatureHelper.add_auth and the three _calc_signature             *)
(***************************************************************************)
\* The three parameters add_auth sets before it signs
Inject(params, access_key, version, now) ==
    DictSet(DictSet(DictSet(params, K_AWSAccessKeyId, access_key),
                    K_SignatureVersion, PyInt(version)),
            K_Timestamp, FormatTimestamp(now))

\* `if self._hmac_256:` in V2
UseSha256 == heap["_hmac_256"] # NoObject
\* SignatureMethod named without regard to the hash in use
SignatureMethodName_fixed(use256) == HmacSHA256

\* The value V2 stores under SignatureMethod
SignatureMethodName(use256) == IF use256 THEN HmacSHA256 ELSE HmacSHA1
\* The template V2 copies
TemplateV2(use256) == IF use256 THEN "_hmac_256" ELSE "_hmac"

\* The end of add_auth without `http_request.params = {}`
QueryTail_params_kept(r, qs, signature) ==
    IF r.method = POST
    THEN [r EXCEPT !.headers = DictSet(@, "Content-Type", FORM_CONTENT_TYPE),
                   !.body = SignedQuery(qs, signature)]
    ELSE [r EXCEPT !.body = <<>>,
                   !.path = @ \o <<"?">> \o SignedQuery(qs, signature)]

\* The end of add_auth with the method test lost: the query always goes to the path
QueryTail_always_path(r, qs, signature) ==
    [r EXCEPT !.body = <<>>,
              !.path = @ \o <<"?">> \o SignedQuery(qs, signature),
              !.params = EmptyDict]

\* The end of add_auth: the signed query goes to the body or to the path, and
\* params is replaced by an empty dict
QueryTail(r, qs, signature) ==
    IF r.method = POST
    THEN [r EXCEPT !.headers = DictSet(@, "Content-Type", FORM_CONTENT_TYPE),
                   !.body = SignedQuery(qs, signature),
                   !.params = EmptyDict]
    ELSE [r EXCEPT !.body = <<>>,
                   !.path = @ \o <<"?">> \o SignedQuery(qs, signature),
                   !.params = EmptyDict]

\* add_auth up to the copy of the template in _calc_signature, and what is
\* computed before the hash is fed.  V0 raises KeyError at params['Action']
\* when the caller gave no Action.
QueryBegin(t, fresh, times) ==
    /\ MayCall(t)
    /\ handler.cls \in QueryClasses
    /\ \E r \in Offered(t, fresh), now \in times :
        LET version == SignatureVersion(handler.cls)
            server_name == _server_name(r.host, r.port, pyver)
            injected == Inject(r.params, handler._access_key, version, now)
            params == IF version = 2
                      THEN DictSet(injected, K_SignatureMethod, SignatureMethodName(UseSha256))
                      ELSE injected
            template == IF version = 2 THEN TemplateV2(UseSha256) ELSE "_hmac"
            frame == [IdleFrame EXCEPT !.n = call[t].n + 1,
                                       !.hmac = CopyRef(template, t),
                                       !.params = params, !.verb = r.method,
                                       !.path = r.path, !.server_name = server_name]
        IN  /\ entry' = [entry EXCEPT ![t] = r]
            /\ previous' = [previous EXCEPT ![t] = call[t]]
            /\ request' = [request EXCEPT ![t] = [r EXCEPT !.params = params]]
            /\ heap' = [heap EXCEPT ![t] = heap[template]]
            /\ IF version = 0
               THEN IF K_Action \in DOMAIN params
                    THEN call' = [call EXCEPT ![t] =
                            [frame EXCEPT !.pc = "copied",
                                          !.msg = params[K_Action] \o params[K_Timestamp]]]
                    ELSE call' = [call EXCEPT ![t] = [frame EXCEPT !.result = "KeyError"]]
               ELSE \E keys \in SortedKeys(DOMAIN params, version) :
                    IF version = 1
                    THEN call' = [call EXCEPT ![t] =
                            [frame EXCEPT !.pc = "copied", !.keys = keys,
                                          !.qs = Join(PairsV01(params, keys), <<"&">>),
                                          !.msg = StreamV1(params, keys)]]
                    ELSE LET qs == Join(PairsV2(params, keys), <<"&">>)
                         IN  call' = [call EXCEPT ![t] =
                                [frame EXCEPT !.pc = "copied", !.keys = keys, !.qs = qs,
                                    !.msg = StringToSignPrefix(r.method, server_name, r.path)
                                            \o qs]]
    /\ UNCHANGED <<env, resolution, writer, th>>

\* The rest of _calc_signature and of add_auth.  The loop of V0 calls
\* `bot.utils.get_utf8_value`: `bot` is no name of the module, so its first
\* iteration raises NameError.
QueryFinish(t) ==
    /\ call[t].pc = "updated"
    /\ handler.cls \in QueryClasses
    /\ LET signature == b64encode(hmac_digest(heap[call[t].hmac]))
       IN  IF SignatureVersion(handler.cls) = 0
           THEN \E keys \in SortedKeys(DOMAIN call[t].params, 0) :
                IF keys # <<>>
                THEN /\ call' = [call EXCEPT ![t].pc = "idle", ![t].result = "NameError",
                                             ![t].keys = keys]
                     /\ UNCHANGED request
                ELSE /\ call' = [call EXCEPT ![t].pc = "idle", ![t].result = "returned",
                                             ![t].keys = keys, ![t].signature = signature]
                     /\ request' = [request EXCEPT ![t] = QueryTail(@, <<>>, signature)]
           ELSE /\ call' = [call EXCEPT ![t].pc = "idle", ![t].result = "returned",
                                        ![t].signature = signature]
                /\ request' = [request EXCEPT ![t] = QueryTail(@, call[t].qs, signature)]
    /\ UNCHANGED <<env, resolution, heap, entry, previous, writer, th>>

(***************************************************************************)
(* Writer: the calls of its user                                           *)
(***************************************************************************)
auth == <<env, resolution, heap, request, entry, call, previous>>

\* writer.write(str)
Write(str) ==
    /\ writer.calls < MaxWriterCalls
    /\ writer' = write([Enter(writer, "write") EXCEPT
                            !.written = @ + (IF writer.self.closed THEN 0 ELSE Len(str))],
                       str)
    /\ UNCHANGED <<auth, th>>

\* writer.close()
Close ==
    /\ writer.calls < MaxWriterCalls
    /\ writer' = close([Enter(writer, "close") EXCEPT !.close_calls = @ + 1])
    /\ UNCHANGED <<auth, th>>

\* writer.get_archive_id()
GetArchiveId ==
    /\ writer.calls < MaxWriterCalls
    /\ writer' = get_archive_id([Enter(writer, "get_archive_id") EXCEPT
                                    !.close_calls = @ + 1])
    /\ UNCHANGED <<auth, th>>

(***************************************************************************)
(* tree_hash, statement by statement                                       *)
(***************************************************************************)
\* Bound of the tree_hash specification: the longest list of chunk hashes
MaxHashes == 5
Leaves == {hashlib_sha256(<<"a">>), hashlib_sha256(<<"b">>)}
HashLists == UNION {[1..n -> Leaves] : n \in 0..MaxHashes}

\* `hashes = fo`: the local name bound to the caller's list
HashesList_caller(fresh, fo) == fo

\* `hashes = []; hashes.extend(fo)`: the list the local name `hashes` denotes
\* is a new one, holding the elements of fo
HashesList(fresh, fo) == fresh

\* The call, up to the test of the outer while
TreeBegin(fo) ==
    /\ th.pc = "idle"
    /\ th' = [pc |-> "outer", input |-> fo, hashes |-> HashesList("local", "caller"),
              n |-> 0, result |-> <<>>,
              lists |-> [caller |-> fo, local |-> fo, new_hashes |-> <<>>]]
    /\ UNCHANGED <<auth, writer>>

\* `while len(hashes) > 1:` and, when it fails, `return hashes[0]`
TreeOuter ==
    /\ th.pc = "outer"
    /\ LET hashes == th.lists[th.hashes]
       IN  IF Len(hashes) > 1
           THEN th' = [th EXCEPT !.pc = "inner", !.n = Len(hashes),
                                 !.lists.new_hashes = <<>>]
           ELSE IF hashes = <<>>
           THEN th' = [th EXCEPT !.pc = "IndexError"]
           ELSE th' = [th EXCEPT !.pc = "done", !.result = hashes[1]]
    /\ UNCHANGED <<auth, writer>>

\* One pass of `while True:`; its break is followed by
\* `hashes.extend(new_hashes)`
TreeInner ==
    /\ th.pc = "inner"
    /\ LET hashes == th.lists[th.hashes]
       IN  IF Len(hashes) > 1
           THEN th' = [th EXCEPT
                         !.lists[th.hashes] = SubSeq(hashes, 3, Len(hashes)),
                         !.lists.new_hashes =
                             Append(@, hashlib_sha256(hashes[1] \o hashes[2]))]
           ELSE IF Len(hashes) = 1
           THEN th' = [th EXCEPT !.lists[th.hashes] = <<>>,
                                 !.lists.new_hashes = Append(@, hashes[1])]
           ELSE th' = [th EXCEPT !.pc = "outer",
                                 !.lists[th.hashes] = hashes \o th.lists.new_hashes]
    /\ UNCHANGED <<auth, writer>>

(***************************************************************************)
(* Specifications                                                          *)
(***************************************************************************)
\* Handler resolution in any environment
Next == Resolve(CandidateLists)

Spec == Init /\ [][Next]_vars

\* Resolution over a registry that holds a candidate whose constructor fails
ErrNext == Resolve(ErrCandidateLists)

ErrSpec == ErrInit /\ [][ErrNext]_vars

\* One call of tree_hash on any list of chunk hashes; a call that has begun
\* runs to its end
TreeInit ==
    /\ AuthIdle
    /\ writer = FreshWriter(1)
    /\ th = IdleTree

TreeNext ==
    \/ \E fo \in HashLists : TreeBegin(fo)
    \/ TreeOuter
    \/ TreeInner

TreeSpec == TreeInit /\ [][TreeNext]_vars /\ WF_vars(TreeNext)

\* A user writes to a Writer and closes it
WriterNext ==
    \/ \E str \in Strs : Write(str)
    \/ Close
    \/ GetArchiveId

WriterSpec == WriterInit /\ [][WriterNext]_vars

\* One caller resolves a handler and signs with it
SignNext ==
    \/ Resolve(SingleCandidates)
    \/ HmacBegin("t1", Requests, Times)
    \/ QueryBegin("t1", Requests, Times)
    \/ Update("t1")
    \/ HmacFinish("t1")
    \/ QueryFinish("t1")

SignSpec == SignInit /\ [][SignNext]_vars

\* Two callers sign with the one instance, their calls interleaved
ConcNext ==
    \/ Resolve(SingleCandidates)
    \/ \E t \in Threads : HmacBegin(t, FewRequests, {1})
    \/ \E t \in Threads : QueryBegin(t, FewRequests, {1})
    \/ \E t \in Threads : Update(t)
    \/ \E t \in Threads : HmacFinish(t)
    \/ \E t \in Threads : QueryFinish(t)

ConcSpec == ConcInit /\ [][ConcNext]_vars

(***************************************************************************)
(* Properties of handler resolution                                        *)
(***************************************************************************)
Resolved == resolution.outcome # "pending"

\* The positions of the candidate list whose class is ready in this environment
ReadyPositions ==
    {i \in 1..Len(resolution.auth_handlers) :
        ClassReady(resolution.auth_handlers[i], host, config, provider)}

\* C1: get_auth_handler is a trichotomy on the number of ready candidates:
\* none ready raises NoAuthHandlerFound, exactly one ready returns the instance
\* of that candidate, two or more ready raise
\* TooManyAuthHandlerReadyToAuthenticate; a handler is returned only when
\* exactly one candidate is ready.
C1_ResolverTrichotomy ==
    Resolved =>
        /\ (Cardinality(ReadyPositions) = 0) = (resolution.outcome = "NoAuthHandlerFound")
        /\ (Cardinality(ReadyPositions) = 1) = (resolution.outcome = "returned")
        /\ (Cardinality(ReadyPositions) >= 2)
              = (resolution.outcome = "TooManyAuthHandlerReadyToAuthenticate")
        /\ (resolution.handler # NoHandler) = (Cardinality(ReadyPositions) = 1)
        /\ resolution.outcome = "returned" =>
              \A i \in ReadyPositions :
                  /\ handler.cls = resolution.auth_handlers[i]
                  /\ handler._provider = provider
                  /\ <<handler._access_key, handler._secret_key>> = _get_keys(config, provider)

\* One candidate of several is ready and is the one returned
C1_Witness ==
    /\ resolution.outcome = "returned"
    /\ Len(resolution.auth_handlers) = 2
    /\ handler.cls = "QuerySignatureV2AuthHandler"

\* C2: in no environment are the header strategy and a query-signature
\* strategy both ready: a query-signature strategy is not ready on a host that
\* ends with the S3 domain, the header strategy is ready only on a host that
\* ends with the S3 or the GS endpoint, and the handler resolved for such a
\* host is never a query-signature one.
C2_HeaderXorQuery ==
    /\ ~(HmacAuthHandlerReady(host, config, provider)
            /\ QuerySignatureReady(host, config, provider))
    /\ \A cls \in QueryClasses :
          EndsWith(host, S3_ENDPOINT) => ~ClassReady(cls, host, config, provider)
    /\ ClassReady("HmacAuthHandler", host, config, provider)
          => (EndsWith(host, S3_ENDPOINT) \/ EndsWith(host, GS_ENDPOINT))
    /\ (Resolved /\ (EndsWith(host, S3_ENDPOINT) \/ EndsWith(host, GS_ENDPOINT)))
          => (handler.cls \notin QueryClasses
                /\ \A i \in 1..Len(resolution.names) :
                      resolution.outcome = "TooManyAuthHandlerReadyToAuthenticate"
                          => resolution.names[i] \notin QueryClasses)

\* All four classes were candidates on an S3 host and the header strategy alone was ready
C2_Witness ==
    /\ resolution.outcome = "returned"
    /\ resolution.auth_handlers = AllHandlers
    /\ EndsWith(host, S3_ENDPOINT)
    /\ handler.cls = "HmacAuthHandler"

\* A provider's own pair: its access key id and its secret key
OwnKeys(cfg, name) ==
    IF name = "aws"
    THEN <<config_get(cfg, "aws_access_key_id"), cfg["aws_secret_access_key"]>>
    ELSE <<config_get(cfg, "gs_access_key_id"), cfg["gs_secret_access_key"]>>
\* The option that holds a provider's secret key
OwnSecretOption(name) ==
    IF name = "aws" THEN "aws_secret_access_key" ELSE "gs_secret_access_key"

\* C6: _get_keys is a total function of (config, provider): for provider aws
\* (google) with its own secret key present it gives that provider's access
\* key id and secret key; for any other provider, or without the provider's own
\* secret key, it gives None, and then every constructor raises
\* NotReadyToAuthenticate, so that resolution finds no handler.  The keys of the
\* other provider never satisfy the lookup.
C6_GetKeys ==
    LET covered == provider.name \in {"aws", "google"}
                       /\ OwnSecretOption(provider.name) \in DOMAIN config
    IN  /\ covered => _get_keys(config, provider) = OwnKeys(config, provider.name)
        /\ ~covered => _get_keys(config, provider) = NoKeys
        /\ ~covered => \A cls \in HandlerClasses : ~ClassReady(cls, host, config, provider)
        /\ (Resolved /\ ~covered) => resolution.outcome = "NoAuthHandlerFound"
        /\ resolution.outcome = "returned" =>
              /\ covered
              /\ <<handler._access_key, handler._secret_key>>
                     = OwnKeys(config, provider.name)

\* Provider aws, only the Google keys configured: the lookup gave None and no
\* handler was found
C6_Witness ==
    /\ provider.name = "aws"
    /\ DOMAIN config = {"gs_access_key_id", "gs_secret_access_key"}
    /\ resolution.outcome = "NoAuthHandlerFound"
    /\ Len(resolution.auth_handlers) = 4

(***************************************************************************)
(* Properties of add_auth                                                  *)
(***************************************************************************)
\* The caller's add_auth call has ended, by a return or by an exception
Ended(t) == call[t].pc = "idle" /\ call[t].result # "none"
\* The caller's add_auth call has returned
Returned(t) == call[t].pc = "idle" /\ call[t].result = "returned"
\* The instance is of a query-signature class
IsQuery == resolution.outcome = "returned" /\ handler.cls \in QueryClasses
IsHeader == resolution.outcome = "returned" /\ handler.cls = "HmacAuthHandler"
IsVersion(v) == IsQuery /\ SignatureVersion(handler.cls) = v

InjectedKeys == {K_AWSAccessKeyId, K_SignatureVersion, K_Timestamp}

\* qs + '&Signature=' + quote(signature), from the values the call returned
ExpectedSignedQuery(t) ==
    call[t].qs \o SIGNATURE_PARAM \o UrlQuote(call[t].signature, DefaultSafe)

\* C3: when add_auth of a query-signature strategy has returned, for POST or
\* any other method and any initial params, the request's params is empty;
\* every parameter, the injected AWSAccessKeyId, SignatureVersion and Timestamp
\* included, is a key of the query string that went to the path or the body.
C3_ParamsCleared ==
    \A t \in Threads :
        (IsQuery /\ Returned(t)) =>
            /\ request[t].params = EmptyDict
            /\ (DOMAIN entry[t].params) \cup InjectedKeys \subseteq Range(call[t].keys)
            /\ call[t].qs # <<>>
            /\ \/ request[t].body = ExpectedSignedQuery(t)
               \/ EndsWith(request[t].path, <<"?">> \o ExpectedSignedQuery(t))

\* A POST with four parameters of its own was signed by V1
C3_Witness ==
    /\ IsVersion(1)
    /\ Returned("t1")
    /\ entry["t1"].method = POST
    /\ Cardinality(DOMAIN entry["t1"].params) = 4

\* C4: query-signature add_auth puts the signed query in one place: for POST
\* it sets Content-Type to the form-encoded UTF-8 type, sets the body to
\* qs + '&Signature=' + quote(signature) and leaves the path; for any other
\* method it empties the body, appends '?' + qs + '&Signature=' +
\* quote(signature) to the path and leaves the headers, Content-Type included,
\* as they were.
C4_SignedQueryPlacement ==
    \A t \in Threads :
        (IsQuery /\ Returned(t)) =>
            /\ request[t].method = entry[t].method
            /\ IF entry[t].method = POST
               THEN /\ request[t].headers
                         = DictSet(entry[t].headers, "Content-Type", FORM_CONTENT_TYPE)
                    /\ request[t].body = ExpectedSignedQuery(t)
                    /\ request[t].path = entry[t].path
               ELSE /\ request[t].headers = entry[t].headers
                    /\ request[t].body = <<>>
                    /\ request[t].path = entry[t].path \o <<"?">> \o ExpectedSignedQuery(t)

\* A GET that came with a Content-Type header of its own was signed by V2
C4_Witness ==
    /\ IsVersion(2)
    /\ Returned("t1")
    /\ entry["t1"].method = GET
    /\ "Content-Type" \in DOMAIN entry["t1"].headers
    /\ entry["t1"].body # <<>>

\* The hash a class signs with in this environment
AlgorithmUsed == IF IsVersion(2) /\ sha256 THEN "sha256" ELSE "sha1"

\* C5: the instance's keyed-hash templates _hmac and _hmac_256 are never
\* updated after construction, and every signature returned, whatever other
\* calls ran before it or run beside it on the same instance, is the digest of
\* the secret key and that call's own message alone.
C5_TemplatesNeverUpdated ==
    resolution.outcome = "returned" =>
        /\ heap["_hmac"] = hmac_new(handler._secret_key, "sha1")
        /\ heap["_hmac_256"] = IF sha256 THEN hmac_new(handler._secret_key, "sha256")
                               ELSE NoObject
        /\ \A t \in Threads :
              Returned(t) =>
                  call[t].signature
                      = b64encode(hmac_digest([alg |-> AlgorithmUsed,
                                               key |-> handler._secret_key,
                                               data |-> call[t].msg]))

\* Two calls on the one instance have both fed their own copy, one of them the
\* caller's second call, and their messages differ
C5_Witness ==
    /\ call["t1"].pc = "updated"
    /\ call["t2"].pc = "updated"
    /\ call["t1"].n = 2
    /\ call["t1"].msg # call["t2"].msg

\* keys is the list of the keys of params in the order the version asks for
InOrder(keys, params, caseless) ==
    /\ Range(keys) = DOMAIN params
    /\ Len(keys) = Cardinality(DOMAIN params)
    /\ \A i, j \in 1..Len(keys) :
          i < j => IF caseless THEN LowerLessEq(keys[i], keys[j])
                   ELSE RawLessEq(keys[i], keys[j])

\* What holds of V1 and V2: the query string lists the keys in caseless order
\* under V1 and in raw order under V2
KeyOrderV1V2 ==
    \A t \in Threads :
        (IsQuery /\ ~IsVersion(0) /\ Returned(t)) =>
            /\ InOrder(call[t].keys, call[t].params, IsVersion(1))
            /\ call[t].qs = Join(IF IsVersion(1) THEN PairsV01(call[t].params, call[t].keys)
                                 ELSE PairsV2(call[t].params, call[t].keys), <<"&">>)

\* C7: for every parameter map (with the fields the caller owes, Action among
\* them) V0 and V1 produce a canonical query string that lists the keys in
\* case-insensitive order and V2 one that lists them in raw ordinal order.
C7_KeyOrder ==
    \A t \in Threads :
        (IsQuery /\ Ended(t) /\ K_Action \in DOMAIN call[t].params) =>
            /\ call[t].result = "returned"
            /\ InOrder(call[t].keys, call[t].params, ~IsVersion(2))
            /\ call[t].qs = Join(IF IsVersion(2) THEN PairsV2(call[t].params, call[t].keys)
                                 ELSE PairsV01(call[t].params, call[t].keys), <<"&">>)

\* C8: V2 signs METHOD, newline, the lowered server name, newline, the path,
\* newline and the canonical query string; the query string covers all params,
\* the injected SignatureMethod included; and SignatureMethod names the hash
\* that was updated: HmacSHA256 exactly when the SHA-256 context exists,
\* HmacSHA1 exactly when it does not.
C8_V2StringToSign ==
    \A t \in Threads :
        (IsVersion(2) /\ Returned(t)) =>
            /\ call[t].params[K_SignatureMethod] = (IF sha256 THEN HmacSHA256 ELSE HmacSHA1)
            /\ (heap[call[t].hmac].alg = "sha256") = sha256
            /\ (heap[call[t].hmac].alg = "sha1") = ~sha256
            /\ heap[call[t].hmac].key = handler._secret_key
            /\ DOMAIN call[t].params
                  = (DOMAIN entry[t].params) \cup InjectedKeys \cup {K_SignatureMethod}
            /\ Range(call[t].keys) = DOMAIN call[t].params
            /\ call[t].qs = Join(PairsV2(call[t].params, call[t].keys), <<"&">>)
            /\ heap[call[t].hmac].data
                  = entry[t].method \o <<"\n">> \o StrLower(call[t].server_name) \o <<"\n">>
                       \o entry[t].path \o <<"\n">> \o call[t].qs
            /\ call[t].signature = b64encode(hmac_digest(heap[call[t].hmac]))

\* V2 signed without SHA-256, on a host with capitals and a port in the server name
C8_Witness ==
    /\ IsVersion(2)
    /\ Returned("t1")
    /\ ~sha256
    /\ port = 8080
    /\ call["t1"].server_name # StrLower(call["t1"].server_name)

\* C9: V0 signing, for every params with Action, returns a query string and a
\* signature; the signature is base64 of HMAC-SHA1 of the secret over the
\* Action value followed by the Timestamp value, and the query string has a
\* key=quote(value) pair for every param, joined by '&'.
C9_V0Signature ==
    \A t \in Threads :
        (IsVersion(0) /\ Ended(t) /\ K_Action \in DOMAIN call[t].params) =>
            /\ call[t].result = "returned"
            /\ call[t].signature
                  = b64encode(hmac_digest([alg |-> "sha1", key |-> handler._secret_key,
                                           data |-> call[t].params[K_Action]
                                                      \o call[t].params[K_Timestamp]]))
            /\ Range(call[t].keys) = DOMAIN call[t].params
            /\ call[t].qs = Join(PairsV01(call[t].params, call[t].keys), <<"&">>)

\* The headers the canonical string is built from: those the call came with,
\* and Date
SignedHeaders(t) ==
    [n \in (DOMAIN entry[t].headers) \cup {"Date"} |->
        IF n \in DOMAIN entry[t].headers THEN entry[t].headers[n]
        ELSE request[t].headers["Date"]]

\* C10: header add_auth writes only the Date and Authorization headers: a Date
\* header the request came with is left as it was, one is set to the current
\* GMT time only when there was none, Authorization is set to
\* '<auth-scheme> <access_key>:<base64 signature>', and method, host, port,
\* path, params, body and every other header are as they were.
C10_HeaderAuthFrame ==
    \A t \in Threads :
        (IsHeader /\ Returned(t)) =>
            /\ [request[t] EXCEPT !.headers = EmptyDict]
                  = [entry[t] EXCEPT !.headers = EmptyDict]
            /\ DOMAIN request[t].headers
                  = (DOMAIN entry[t].headers) \cup {"Date", "Authorization"}
            /\ \A n \in (DOMAIN entry[t].headers) \ {"Authorization"} :
                  request[t].headers[n] = entry[t].headers[n]
            /\ "Date" \notin DOMAIN entry[t].headers
                  => request[t].headers["Date"] \in {FormatDate(now) : now \in Times}
            /\ request[t].headers["Authorization"]
                  = handler._provider.auth_header \o <<" ">> \o PyStr(handler._access_key)
                       \o <<":">> \o call[t].signature
            /\ call[t].signature
                  = b64encode(hmac_digest(
                        [alg |-> "sha1", key |-> handler._secret_key,
                         data |-> canonical_string(entry[t].method,
                                      _get_bucket(entry[t].host) \o entry[t].path,
                                      SignedHeaders(t), handler._provider)]))

\* A request that came with a Date header and with params and a body was signed
C10_Witness ==
    /\ IsHeader
    /\ Returned("t1")
    /\ "Date" \in DOMAIN entry["t1"].headers
    /\ entry["t1"].params # EmptyDict
    /\ "Authorization" \notin DOMAIN entry["t1"].headers

\* An add_auth call of a query-signature instance has computed its server name
NamedServer(t) == IsQuery /\ call[t].n > 0

\* host:port in ASCII
HostPort(h, p) == h \o <<":">> \o IntToStr(p)

\* C11 as stated: the server name is the bare host for port 80 and
\* 'host:port' for every other port.
C11_ServerNameAsStated ==
    \A t \in Threads :
        NamedServer(t) =>
            call[t].server_name
                = (IF entry[t].port = 80 THEN entry[t].host
                   ELSE HostPort(entry[t].host, entry[t].port))

\* C11 (amended): the server name is the bare host for port 80, and also for
\* port 443 when sys.version[:3] is 2.6 or 2.7; in every other case it is
\* 'host:port' in ASCII.
C11_ServerName ==
    \A t \in Threads :
        NamedServer(t) =>
            call[t].server_name
                = (IF entry[t].port = 80
                      \/ (entry[t].port = 443 /\ pyver \in {"2.6", "2.7"})
                   THEN entry[t].host
                   ELSE HostPort(entry[t].host, entry[t].port))

\* Port 443 on Python 2.7: the server name is the bare host
C11_Witness ==
    /\ NamedServer("t1")
    /\ port = 443
    /\ pyver = "2.7"
    /\ call["t1"].server_name = host

(***************************************************************************)
(* C12: exceptions of a candidate's constructor                            *)
(***************************************************************************)
Candidates == resolution.auth_handlers
Constructed(i) == Instantiate(Candidates[i], host, config, provider)
Raisers == {i \in 1..Len(Candidates) :
                Constructed(i) \notin {"ready", "NotReadyToAuthenticate"}}
ReadyOnes == {i \in 1..Len(Candidates) : Constructed(i) = "ready"}
CountOutcome(n) == IF n = 0 THEN "NoAuthHandlerFound"
                   ELSE IF n = 1 THEN "returned"
                   ELSE "TooManyAuthHandlerReadyToAuthenticate"

\* C12 as stated: a candidate that raises NotReadyToAuthenticate is left out and
\* the remaining candidates are still tried; any other exception of a
\* constructor ends resolution for that candidate only, so that every candidate
\* is tried and the outcome is decided among the others.
C12_AbortsCandidateOnly ==
    Resolved =>
        /\ resolution.tried = Len(Candidates)
        /\ resolution.outcome = CountOutcome(Cardinality(ReadyOnes))

\* C12 (amended): a candidate that raises NotReadyToAuthenticate is left out and
\* the remaining candidates are still tried; the first other exception of a
\* constructor leaves get_auth_handler as it is, no later candidate is tried
\* and no handler is returned.
C12_ExceptionPropagation ==
    Resolved =>
        IF Raisers = {}
        THEN /\ resolution.tried = Len(Candidates)
             /\ resolution.outcome = CountOutcome(Cardinality(ReadyOnes))
             /\ resolution.outcome = "returned" =>
                    \E i \in ReadyOnes : resolution.handler.cls = Candidates[i]
        ELSE /\ resolution.tried = Min(Raisers)
             /\ resolution.outcome = Constructed(Min(Raisers))
             /\ resolution.handler = NoHandler

\* A candidate that is not ready, then one that raises, then one that would
\* have been ready
C12_Witness ==
    /\ Resolved
    /\ Len(Candidates) = 3
    /\ Constructed(1) = "NotReadyToAuthenticate"
    /\ Constructed(2) = PluginException
    /\ Constructed(3) = "ready"
    /\ resolution.outcome = PluginException
    /\ resolution.tried = 2

(***************************************************************************)
(* C13: add_auth a second time on the request it signed                    *)
(***************************************************************************)
\* The caller's second add_auth call, on the request its first call left, is over
SecondCall(t) == IsQuery /\ call[t].n = 2 /\ Ended(t)
SameQs(t) == call[t].qs = previous[t].qs
SameSignature(t) == call[t].signature = previous[t].signature
SameAsFirst(t) == SameQs(t) /\ SameSignature(t)
\* Both calls signed the same parameters: the first request carried none
\* besides the injected ones and the clock read the same second
SameParams(t) == call[t].params = previous[t].params
\* The query string the call built names the injected fields and nothing else
Degenerate(t) ==
    Range(call[t].keys) = InjectedKeys \cup (IF IsVersion(2) THEN {K_SignatureMethod} ELSE {})

\* C13 as stated: for every signing version, the second call on the same
\* request finds params empty, completes, and its query string and signature
\* cover the injected fields alone and differ from those of the first call.
C13_SecondCallDiffers ==
    \A t \in Threads :
        SecondCall(t) =>
            /\ entry[t].params = EmptyDict
            /\ Returned(t)
            /\ Degenerate(t)
            /\ ~SameAsFirst(t)

\* C13 (amended): under versions 1 and 2 the second call on the same request
\* finds params empty, completes, and its query string and signature cover the
\* injected fields alone.  The query string differs from that of the first
\* call exactly when the first call signed other parameters or another
\* timestamp; the signature differs exactly then, and under version 2 also
\* whenever the first call appended its query to the path (any method but
\* POST).  Under version 0 the second call does not complete: it raises.
C13_SecondCall ==
    \A t \in Threads :
        SecondCall(t) =>
            IF IsVersion(0)
            THEN ~Returned(t)
            ELSE /\ entry[t].params = EmptyDict
                 /\ Returned(t)
                 /\ Degenerate(t)
                 /\ SameQs(t) <=> SameParams(t)
                 /\ SameSignature(t) <=>
                        (SameParams(t) /\ (IsVersion(1) \/ entry[t].method = POST))

\* V2 signed a request with parameters of its own twice within the same second
C13_Witness ==
    /\ IsVersion(2)
    /\ SecondCall("t1")
    /\ Returned("t1")
    /\ Cardinality(DOMAIN previous["t1"].params) > 4
    /\ call["t1"].params[K_Timestamp] = previous["t1"].params[K_Timestamp]
    /\ ~SameAsFirst("t1")

(***************************************************************************)
(* C14, C15: the glacier Writer                                            *)
(***************************************************************************)
Uploads == writer.upload_part
Completes == writer.complete_multipart_upload
\* Where the i-th uploaded part starts if the parts are contiguous from 0
RECURSIVE StartOf(_)
StartOf(i) == IF i = 1 THEN 0 ELSE StartOf(i - 1) + Len(Uploads[i - 1].part)

\* C14: after any sequence of write calls on an open Writer, buffer_size is the
\* total length of the buffered strings and at most part_size, and
\* uploaded_size + buffer_size is the number of bytes written; every part
\* uploaded by write has part_size bytes and the content range
\* (uploaded_size before, uploaded_size before + len(part) - 1), so the ranges
\* are contiguous from 0; when close has completed, the buffer is empty and the
\* size passed to complete_multipart_upload is the number of bytes written.
C14_ByteConservation ==
    /\ ~writer.self.closed =>
        /\ writer.self.buffer_size = Len(Concat(writer.self.buffer))
        /\ writer.self.buffer_size <= writer.self.part_size
        /\ writer.self.uploaded_size + writer.self.buffer_size = writer.written
    /\ \A i \in 1..Len(Uploads) :
        /\ Uploads[i].content_range =
                <<StartOf(i), StartOf(i) + Len(Uploads[i].part) - 1>>
        /\ (i < Len(Uploads) \/ writer.close_calls = 0) =>
                Len(Uploads[i].part) = writer.self.part_size
    /\ writer.self.closed =>
        /\ writer.self.buffer = <<>>
        /\ writer.self.buffer_size = 0
        /\ Len(Completes) = 1
        /\ Completes[1].size = writer.written

\* C15: a call of close that is over has closed the Writer, and closed stays
\* true; a close or get_archive_id on a closed Writer calls neither upload_part
\* nor complete_multipart_upload, so complete_multipart_upload is called at
\* most once; a write after close fails its assertion and leaves buffer,
\* buffer_size and uploaded_size as they were.
C15_ClosedLifecycle ==
    /\ writer.close_calls > 0 => writer.self.closed
    /\ writer.before.closed => writer.self.closed
    /\ Len(Completes) <= 1
    /\ (writer.before.closed /\ writer.op \in {"close", "get_archive_id"}) =>
        /\ Len(Uploads) = writer.before.upload_part
        /\ Len(Completes) = writer.before.complete_multipart_upload
        /\ writer.raised = NoException
    /\ (writer.op = "write" /\ writer.close_calls > 0) =>
        /\ writer.raised = "AssertionError"
        /\ writer.self.buffer = writer.before.buffer
        /\ writer.self.buffer_size = writer.before.buffer_size
        /\ writer.self.uploaded_size = writer.before.uploaded_size

(***************************************************************************)
(* C16: tree_hash                                                          *)
(***************************************************************************)
TreeOver == th.pc \in {"done", "IndexError"}
TreeSafety ==
    /\ th.lists.caller = th.input
    /\ (th.pc = "outer" /\ th.n > 1) => Len(th.lists[th.hashes]) = (th.n + 1) \div 2
    /\ th.pc = "done" =>
        /\ th.input # <<>>
        /\ th.lists[th.hashes] = <<th.result>>
        /\ th.result = tree_hash(th.input)
        /\ Len(th.input) = 1 => th.result = th.input[1]
    /\ th.pc = "IndexError" => th.input = <<>>

\* C16: tree_hash terminates for every list of chunk hashes; a round turns a
\* list of n > 1 hashes into one of ceil(n/2), the unpaired last hash carried
\* up unchanged; for a non-empty list it ends with exactly one hash, which it
\* returns, and the caller's list is never modified; a single hash is returned
\* as it is.
C16_TreeHash == []TreeSafety /\ <>TreeOver

\* A list of five hashes was reduced: 5, 3, 2, 1, the last hash carried twice
C16_Witness ==
    /\ th.pc = "done"
    /\ Len(th.input) = 5
    /\ th.lists.caller = th.input
    /\ th.result = hashlib_sha256(
                      hashlib_sha256(hashlib_sha256(th.input[1] \o th.input[2])
                                     \o hashlib_sha256(th.input[3] \o th.input[4]))
                      \o th.input[5])

====
